---- MODULE Spec2Model ----
(***************************************************************************)
(* Friendship logbook (src/app.py): a two-user Flask journal over three    *)
(* sqlite tables (user, memory, appreciation), an upload directory and     *)
(* signed-cookie sessions.                                                 *)
(*                                                                         *)
(* Every request opens its own connection (get_db_connection) and commits  *)
(* per statement, so a handler that SELECTs a row, checks ownership and    *)
(* then UPDATEs or DELETEs it is two database steps: another request may   *)
(* run between them.  Handlers that end before their write (GET, a failed  *)
(* ownership check, the login_required redirect) are one step.             *)
(***************************************************************************)
EXTENDS Integers, Sequences, FiniteSets, TLC

\* ------------------------------------------------------------ bounds
\* Rows ever inserted into memory and appreciation together.
MaxCreates == 2

\* ------------------------------------------------------------ input domains
\* Browser sessions (devices); each carries its own signed cookie.
Sessions == {"s1", "s2"}

\* YOUR_PASSWORD / FRIEND_PASSWORD of the environment (.env).
Environment == [your |-> "pw1", friend |-> "pw2"]

Usernames == {"You", "Friend", "Nobody"}
Passwords == {"pw1", "pw2"}

\* request.form of add_memory / edit_memory.
Forms ==
    { [title |-> "Trip", story |-> "Fun", latitude |-> 1, longitude |-> 2,
       date |-> "2024-01-01"],
      [title |-> "Hike", story |-> "Wet", latitude |-> 3, longitude |-> 4,
       date |-> "2024-02-02"] }

\* request.form['text'] of appreciation / edit_appreciation.
Texts == {"", "thanks"}

\* Filenames are sequences of characters.
PicPNG     == <<"a", ".", "P", "N", "G">>
PayloadExe == <<"p", "a", "y", "l", "o", "a", "d", ".", "e", "x", "e">>
NoDotPng   == <<"p", "n", "g">>
EmptyName  == << >>

\* request.files: no 'photo' part at all, or a part with a filename.
NoFile == [present |-> FALSE, filename |-> EmptyName]
Files ==
    {NoFile} \cup
    { [present |-> TRUE, filename |-> f] :
        f \in {EmptyName, PicPNG, PayloadExe, NoDotPng} }

NULL == << >>

\* The ?next= parameter a login request may carry.
NextParams == {"none", "delete_memory"}

ProtectedRoutes ==
    {"logout", "home", "add_memory", "edit_memory", "delete_memory",
     "appreciation", "edit_appreciation", "delete_appreciation"}

\* ------------------------------------------------------------ state
VARIABLES
    started,       \* the module has been imported: init_db() returned
    user,          \* table user: id -> [username, password_hash]
    salts,         \* password hashes generated so far (each has a fresh salt)
    memory,        \* table memory: id -> row
    memorySeq,     \* sqlite_sequence of memory (AUTOINCREMENT)
    appreciation,  \* table appreciation: id -> row
    appreciationSeq,
    uploads,       \* file names present in static/uploads
    session,       \* per browser session: logged-in user id, 0 = Anonymous
    pend,          \* per session: the request between its SELECT and its write
    last           \* the step just taken and the response it sent

vars == <<started, user, salts, memory, memorySeq, appreciation,
          appreciationSeq, uploads, session, pend, last>>

Idle == [op |-> "idle", id |-> 0, photo_url |-> NULL]

\* op: the route (or init_db); cur: current_user.id of the request, 0 when
\* anonymous; id: the row id in the URL (the new row's id for a create), 0
\* when there is none; step: "check" up to the ownership check, "write" the
\* statement after it; resp: the response sent, "none" while the request
\* goes on; arg: the upload of a memory POST, the ?next= of a successful
\* login.
Event(op, cur, id, step, resp, arg) ==
    [op |-> op, cur |-> cur, id |-> id, step |-> step, resp |-> resp,
     arg |-> arg]

\* ------------------------------------------------------------ helpers
\* ALLOWED_EXTENSIONS
ALLOWED_EXTENSIONS ==
    { <<"p", "n", "g">>, <<"j", "p", "g">>, <<"j", "p", "e", "g">>,
      <<"g", "i", "f">> }

\* str.lower() on the characters the model uses.
LowerChar(c) ==
    CASE c = "P" -> "p" [] c = "N" -> "n" [] c = "G" -> "g"
      [] c = "J" -> "j" [] c = "E" -> "e" [] c = "I" -> "i"
      [] c = "F" -> "f" [] c = "X" -> "x" [] c = "A" -> "a"
      [] OTHER -> c

Lower(f) == [i \in 1..Len(f) |-> LowerChar(f[i])]

\* filename.rsplit('.', 1)[1]: what follows the last dot.
LastDot(f) ==
    LET dots == {i \in 1..Len(f) : f[i] = "."}
    IN  IF dots = {} THEN 0
        ELSE CHOOSE i \in dots : \A j \in dots : j <= i

Extension(f) == SubSeq(f, LastDot(f) + 1, Len(f))

allowed_file_any_dot(filename) ==
    LastDot(filename) # 0

allowed_file(filename) ==
    /\ LastDot(filename) # 0
    /\ Lower(Extension(filename)) \in ALLOWED_EXTENSIONS

\* werkzeug secure_filename on the characters the model uses: path
\* separators become "_", characters outside [A-Za-z0-9_.-] are dropped,
\* leading and trailing "." and "_" are stripped.
RECURSIVE StripLeft(_)
StripLeft(f) ==
    IF f # << >> /\ Head(f) \in {".", "_"} THEN StripLeft(Tail(f)) ELSE f

RECURSIVE StripRight(_)
StripRight(f) ==
    IF f # << >> /\ f[Len(f)] \in {".", "_"}
    THEN StripRight(SubSeq(f, 1, Len(f) - 1))
    ELSE f

secure_filename(f) ==
    LET sep == [i \in 1..Len(f) |-> IF f[i] = "/" THEN "_" ELSE f[i]]
    IN  StripRight(StripLeft(SelectSeq(sep, LAMBDA c : c # " ")))

UPLOAD_FOLDER == <<"static/uploads">>

\* os.path.join(app.config['UPLOAD_FOLDER'], filename)
PathJoin(dir, name) == dir \o <<"/">> \o name

\* `if 'photo' in request.files: file = ...; if file and allowed_file(...)`
\* (a FileStorage is falsy when its filename is empty)
Accepted(file) ==
    /\ file.present
    /\ file.filename # EmptyName
    /\ allowed_file(file.filename)

\* The upload block of add_memory / edit_memory: the photo_url to store,
\* starting from `start` (None in add_memory, the row's value in edit_memory).
PhotoUrlDropOld(start, file) ==
    IF Accepted(file)
    THEN PathJoin(UPLOAD_FOLDER, secure_filename(file.filename))
    ELSE NULL

PhotoUrl(start, file) ==
    IF Accepted(file)
    THEN PathJoin(UPLOAD_FOLDER, secure_filename(file.filename))
    ELSE start

\* file.save(filepath)
Saved(file) ==
    IF Accepted(file)
    THEN uploads \cup {secure_filename(file.filename)}
    ELSE uploads

\* werkzeug generate_password_hash / check_password_hash: a hash carries a
\* salt no earlier hash has, and verifies exactly the password it was made
\* from.
generate_password_hash(pw, salt) == [salt |-> salt, of |-> pw]

check_password_hash(hash, pw) == hash.of = pw

\* Table helpers.
Insert(table, id, row) ==
    [i \in DOMAIN table \cup {id} |-> IF i = id THEN row ELSE table[i]]

Delete(table, id) ==
    [i \in DOMAIN table \ {id} |-> table[i]]

Empty == << >>

\* INTEGER PRIMARY KEY AUTOINCREMENT: one more than the largest id ever used.
RowidReuse(table, seq) ==
    IF DOMAIN table = {} THEN 1
    ELSE 1 + CHOOSE m \in DOMAIN table : \A i \in DOMAIN table : i <= m

NextId(table, seq) == seq + 1

\* load_user via the session cookie: current_user.id, 0 when anonymous.
CurrentUser(s) == IF session[s] \in DOMAIN user THEN session[s] ELSE 0

\* ------------------------------------------------------------ init
Init ==
    /\ started = FALSE
    /\ user = Empty
    /\ salts = 0
    /\ memory = Empty
    /\ memorySeq = 0
    /\ appreciation = Empty
    /\ appreciationSeq = 0
    /\ uploads = {}
    /\ session = [s \in Sessions |-> 0]
    /\ pend = [s \in Sessions |-> Idle]
    /\ last = Event("none", 0, 0, "check", "none", "none")

\* ------------------------------------------------------------ startup
SeedUsers(env) ==
    (1 :> [username |-> "You",
           password_hash |-> generate_password_hash(env.your, salts + 1)])
    @@
    (2 :> [username |-> "Friend",
           password_hash |-> generate_password_hash(env.friend, salts + 2)])

\* `if cursor.fetchone()[0] == 0`
SeedAlways(table) == TRUE

SeedNeeded(table) == DOMAIN table = {}

\* init_db(), run at import (every start of the process).  os.getenv is
\* read only in the seeding branch.
init_db ==
    /\ IF SeedNeeded(user)
       THEN /\ user' = SeedUsers(Environment)
            /\ salts' = salts + 2
            /\ last' = Event("init_db", 0, 0, "write", "seeded", "none")
       ELSE /\ last' = Event("init_db", 0, 0, "write", "kept", "none")
            /\ UNCHANGED <<user, salts>>
    /\ started' = TRUE
    /\ UNCHANGED <<memory, memorySeq, appreciation, appreciationSeq, uploads,
                   session, pend>>

\* ------------------------------------------------------------ session gate
\* @login_required: current_user.is_authenticated
login_required_off(s) == TRUE

login_required(s) == CurrentUser(s) # 0

\* login_manager.login_view = 'login': the unauthorized handler redirects
\* to /login?next=<the requested URL>.
Unauthorized(s, route, id) ==
    /\ last' = Event(route, 0, id, "check", "redirect_login", route)
    /\ UNCHANGED <<started, user, salts, memory, memorySeq, appreciation,
                   appreciationSeq, uploads, session, pend>>

\* A response that leaves the store, the sessions and the requests in
\* flight as they are.
Respond(s, route, id, resp, arg) ==
    /\ last' = Event(route, CurrentUser(s), id, "check", resp, arg)
    /\ UNCHANGED <<started, user, salts, memory, memorySeq, appreciation,
                   appreciationSeq, uploads, session, pend>>

\* The ownership check failed (no such row, or another user's): close the
\* connection and redirect to the listing view.
DeniedNotFound(s, route, id, listing) ==
    Respond(s, route, id, "not_found", "none")

Denied(s, route, id, listing) ==
    Respond(s, route, id, listing, "none")

\* The ownership check passed and the handler goes on to its write.
Proceed(s, route, id, photo_url) ==
    /\ pend' = [pend EXCEPT ![s] =
                  [op |-> route, id |-> id, photo_url |-> photo_url]]
    /\ last' = Event(route, CurrentUser(s), id, "check", "none", "none")
    /\ UNCHANGED <<started, user, salts, memory, memorySeq, appreciation,
                   appreciationSeq, uploads, session>>

\* A request of session s is served: the process runs and s has no other
\* request in flight.
Serving(s) == started /\ pend[s] = Idle

\* `if user_row and check_password_hash(user_row['password_hash'], password)`
CredentialsOkAnyPassword(username, password) ==
    \E id \in DOMAIN user : user[id].username = username

CredentialsOk(username, password) ==
    \E id \in DOMAIN user :
        /\ user[id].username = username
        /\ check_password_hash(user[id].password_hash, password)

UserIdOf(username) == CHOOSE id \in DOMAIN user : user[id].username = username

\* Where a successful login goes: redirect(url_for('home')), whatever
\* ?next= says.
LoginTarget(next) == "redirect_home"

\* login_user(user); return redirect(url_for('home'))
LoginUser(s, username, next) ==
    /\ session' = [session EXCEPT ![s] = UserIdOf(username)]
    /\ last' = Event("login", 0, 0, "write", LoginTarget(next), next)
    /\ UNCHANGED <<started, user, salts, memory, memorySeq, appreciation,
                   appreciationSeq, uploads, pend>>

\* The POST branch of login for an anonymous session.
LoginPost(s, username, password, next) ==
    IF CredentialsOk(username, password)
    THEN LoginUser(s, username, next)
    ELSE Respond(s, "login", 0, "render_login_invalid", "none")

login(s, method) ==
    /\ Serving(s)
    /\ IF CurrentUser(s) # 0
       THEN Respond(s, "login", 0, "redirect_home", "none")
       ELSE IF method = "POST"
       THEN \E u \in Usernames, p \in Passwords, n \in NextParams :
                LoginPost(s, u, p, n)
       ELSE Respond(s, "login", 0, "render_login", "none")

logout(s) ==
    /\ Serving(s)
    /\ IF ~login_required(s)
       THEN Unauthorized(s, "logout", 0)
       ELSE /\ session' = [session EXCEPT ![s] = 0]
            /\ last' = Event("logout", CurrentUser(s), 0, "write",
                             "redirect_login", "none")
            /\ UNCHANGED <<started, user, salts, memory, memorySeq,
                           appreciation, appreciationSeq, uploads, pend>>

home(s) ==
    /\ Serving(s)
    /\ IF ~login_required(s)
       THEN Unauthorized(s, "home", 0)
       ELSE Respond(s, "home", 0, "render_index", "none")

\* ------------------------------------------------------------ memory
\* Rows may still be inserted (the bound on the two AUTOINCREMENT counters).
CanCreate == memorySeq + appreciationSeq < MaxCreates

MemoryRow(form, photo_url, user_id) ==
    [title |-> form.title, story |-> form.story, latitude |-> form.latitude,
     longitude |-> form.longitude, photo_url |-> photo_url,
     date |-> form.date, user_id |-> user_id]

\* `if memory is None or memory['user_id'] != current_user.id` (and the same
\* test on author_id in the appreciation handlers): the request may go on.
MayWriteAnyRow(table, id, field, s) == id \in DOMAIN table

MayWrite(table, id, field, s) ==
    /\ id \in DOMAIN table
    /\ table[id][field] = CurrentUser(s)

\* The POST branch of add_memory: the upload block, the INSERT, the commit.
AddMemoryPost(s, form, file) ==
    /\ CanCreate
    /\ LET id == NextId(memory, memorySeq)
       IN  /\ memory' = Insert(memory, id,
                  MemoryRow(form, PhotoUrl(NULL, file), CurrentUser(s)))
           /\ last' = Event("add_memory", CurrentUser(s), id, "write",
                            "redirect_home", file)
    /\ memorySeq' = memorySeq + 1
    /\ uploads' = Saved(file)
    /\ UNCHANGED <<started, user, salts, appreciation, appreciationSeq,
                   session, pend>>

add_memory(s, method) ==
    /\ Serving(s)
    /\ IF ~login_required(s)
       THEN Unauthorized(s, "add_memory", 0)
       ELSE IF method = "POST"
       THEN \E form \in Forms, file \in Files : AddMemoryPost(s, form, file)
       ELSE Respond(s, "add_memory", 0, "render_add_memory", "none")

\* edit_memory up to its ownership check; a POST of the owner goes on to
\* EditMemoryWrite with the row it read.
edit_memory(s, method, id) ==
    /\ Serving(s)
    /\ IF ~login_required(s)
       THEN Unauthorized(s, "edit_memory", id)
       ELSE IF ~MayWrite(memory, id, "user_id", s)
       THEN Denied(s, "edit_memory", id, "redirect_home")
       ELSE IF method = "POST"
       THEN Proceed(s, "edit_memory", id, memory[id].photo_url)
       ELSE Respond(s, "edit_memory", id, "render_edit_memory", "none")

\* UPDATE memory SET title, story, latitude, longitude, photo_url, date
\* WHERE id = ?: every column but user_id, on the row if it still exists.
UpdateMemory(id, form, photo_url) ==
    IF id \in DOMAIN memory
    THEN [memory EXCEPT ![id] =
             MemoryRow(form, photo_url, memory[id].user_id)]
    ELSE memory

\* The POST branch of edit_memory after the ownership check: the upload
\* block, the UPDATE and the commit.
EditMemoryWrite(s, form, file) ==
    /\ started
    /\ pend[s].op = "edit_memory"
    /\ memory' = UpdateMemory(pend[s].id, form,
                              PhotoUrl(pend[s].photo_url, file))
    /\ uploads' = Saved(file)
    /\ pend' = [pend EXCEPT ![s] = Idle]
    /\ last' = Event("edit_memory", CurrentUser(s), pend[s].id, "write",
                     "redirect_home", file)
    /\ UNCHANGED <<started, user, salts, memorySeq, appreciation,
                   appreciationSeq,
                   session>>

delete_memory(s, id) ==
    /\ Serving(s)
    /\ IF ~login_required(s)
       THEN Unauthorized(s, "delete_memory", id)
       ELSE IF ~MayWrite(memory, id, "user_id", s)
       THEN Denied(s, "delete_memory", id, "redirect_home")
       ELSE Proceed(s, "delete_memory", id, NULL)

\* DELETE FROM memory WHERE id = ?, commit, redirect.
DeleteMemoryWrite(s) ==
    /\ started
    /\ pend[s].op = "delete_memory"
    /\ memory' = Delete(memory, pend[s].id)
    /\ pend' = [pend EXCEPT ![s] = Idle]
    /\ last' = Event("delete_memory", CurrentUser(s), pend[s].id, "write",
                     "redirect_home", "none")
    /\ UNCHANGED <<started, user, salts, memorySeq, appreciation,
                   appreciationSeq,
                   uploads, session>>

\* ------------------------------------------------------------ appreciation
\* `recipient_id = 1 if author_id == 2 else 2`
RecipientSelf(author_id) == author_id

Recipient(author_id) == IF author_id = 2 THEN 1 ELSE 2

NoteRow(text, author_id) ==
    [text |-> text, author_id |-> author_id,
     recipient_id |-> Recipient(author_id)]

\* The POST branch of appreciation: the INSERT and the commit.
AppreciationPost(s, text) ==
    /\ CanCreate
    /\ LET id == NextId(appreciation, appreciationSeq)
       IN  /\ appreciation' =
                  Insert(appreciation, id, NoteRow(text, CurrentUser(s)))
           /\ last' = Event("appreciation", CurrentUser(s), id, "write",
                            "redirect_appreciation", "none")
    /\ appreciationSeq' = appreciationSeq + 1
    /\ UNCHANGED <<started, user, salts, memory, memorySeq, uploads, session,
                   pend>>

appreciation_route(s, method) ==
    /\ Serving(s)
    /\ IF ~login_required(s)
       THEN Unauthorized(s, "appreciation", 0)
       ELSE IF method = "POST"
       THEN \E text \in Texts : AppreciationPost(s, text)
       ELSE Respond(s, "appreciation", 0, "render_appreciation", "none")

edit_appreciation(s, method, id) ==
    /\ Serving(s)
    /\ IF ~login_required(s)
       THEN Unauthorized(s, "edit_appreciation", id)
       ELSE IF ~MayWrite(appreciation, id, "author_id", s)
       THEN Denied(s, "edit_appreciation", id, "redirect_appreciation")
       ELSE IF method = "POST"
       THEN Proceed(s, "edit_appreciation", id, NULL)
       ELSE Respond(s, "edit_appreciation", id, "render_edit_appreciation",
                    "none")

\* UPDATE appreciation SET text = ? WHERE id = ?
UpdateNote(id, new_text) ==
    IF id \in DOMAIN appreciation
    THEN [appreciation EXCEPT ![id].text = new_text]
    ELSE appreciation

EditAppreciationWrite(s, new_text) ==
    /\ started
    /\ pend[s].op = "edit_appreciation"
    /\ appreciation' = UpdateNote(pend[s].id, new_text)
    /\ pend' = [pend EXCEPT ![s] = Idle]
    /\ last' = Event("edit_appreciation", CurrentUser(s), pend[s].id,
                     "write", "redirect_appreciation", "none")
    /\ UNCHANGED <<started, user, salts, memory, memorySeq, appreciationSeq,
                   uploads, session>>

delete_appreciation(s, id) ==
    /\ Serving(s)
    /\ IF ~login_required(s)
       THEN Unauthorized(s, "delete_appreciation", id)
       ELSE IF ~MayWrite(appreciation, id, "author_id", s)
       THEN Denied(s, "delete_appreciation", id, "redirect_appreciation")
       ELSE Proceed(s, "delete_appreciation", id, NULL)

\* DELETE FROM appreciation WHERE id = ?, commit, redirect.
DeleteAppreciationWrite(s) ==
    /\ started
    /\ pend[s].op = "delete_appreciation"
    /\ appreciation' = Delete(appreciation, pend[s].id)
    /\ pend' = [pend EXCEPT ![s] = Idle]
    /\ last' = Event("delete_appreciation", CurrentUser(s), pend[s].id,
                     "write", "redirect_appreciation", "none")
    /\ UNCHANGED <<started, user, salts, memory, memorySeq, appreciationSeq,
                   uploads, session>>

\* ------------------------------------------------------------ specification
\* The methods of the route rules; logout and home take GET only, the two
\* delete routes POST only.  A method a rule does not list is answered by
\* the router (405) before any handler runs.
Methods == {"GET", "POST"}

\* Ids a URL may name: those the bound lets exist; in most states some of
\* them were never created or are deleted.
UrlIds == 1..MaxCreates

Next ==
    \/ init_db
    \/ \E s \in Sessions, m \in Methods : login(s, m)
    \/ \E s \in Sessions : logout(s)
    \/ \E s \in Sessions : home(s)
    \/ \E s \in Sessions, m \in Methods : add_memory(s, m)
    \/ \E s \in Sessions, m \in Methods, id \in UrlIds : edit_memory(s, m, id)
    \/ \E s \in Sessions, f \in Forms, file \in Files :
          EditMemoryWrite(s, f, file)
    \/ \E s \in Sessions, id \in UrlIds : delete_memory(s, id)
    \/ \E s \in Sessions : DeleteMemoryWrite(s)
    \/ \E s \in Sessions, m \in Methods : appreciation_route(s, m)
    \/ \E s \in Sessions, m \in Methods, id \in UrlIds :
          edit_appreciation(s, m, id)
    \/ \E s \in Sessions, t \in Texts : EditAppreciationWrite(s, t)
    \/ \E s \in Sessions, id \in UrlIds : delete_appreciation(s, id)
    \/ \E s \in Sessions : DeleteAppreciationWrite(s)

Spec == Init /\ [][Next]_vars

\* ------------------------------------------------------------ properties
\* Every step of Next writes the event of its request into last, so in a
\* step last' names the request that took it.

MemoryWriters == {"edit_memory", "delete_memory"}
NoteWriters   == {"edit_appreciation", "delete_appreciation"}

StoreUnchanged ==
    UNCHANGED <<user, memory, memorySeq, appreciation, appreciationSeq,
                uploads>>

\* C1: a step of edit_memory / delete_memory (edit_appreciation /
\* delete_appreciation) whose caller is logged in and is not the owner
\* (author) of the existing row it names leaves both tables unchanged and
\* answers with the redirect to home (to the appreciation list).
C1_NonOwnerChangesNothing ==
    [][ LET e == last'
        IN  /\ ( /\ e.op \in MemoryWriters
                 /\ e.cur # 0
                 /\ e.id \in DOMAIN memory
                 /\ memory[e.id].user_id # e.cur )
               => ( /\ memory' = memory
                    /\ appreciation' = appreciation
                    /\ e.resp = "redirect_home" )
            /\ ( /\ e.op \in NoteWriters
                 /\ e.cur # 0
                 /\ e.id \in DOMAIN appreciation
                 /\ appreciation[e.id].author_id # e.cur )
               => ( /\ memory' = memory
                    /\ appreciation' = appreciation
                    /\ e.resp = "redirect_appreciation" )
      ]_vars

\* The other user has just tried to delete a note that is not theirs, and
\* the note is still there.
C1_Witness ==
    /\ last.op = "delete_appreciation"
    /\ last.cur # 0
    /\ last.id \in DOMAIN appreciation
    /\ appreciation[last.id].author_id # last.cur
    /\ last.resp = "redirect_appreciation"

\* C2: after every step, every appreciation row has recipient_id different
\* from author_id and {author_id, recipient_id} = {1, 2}, and a row that
\* was there before the step keeps its recipient_id.
C2_RecipientIsTheOther ==
    [][ \A id \in DOMAIN appreciation' :
          /\ appreciation'[id].recipient_id # appreciation'[id].author_id
          /\ {appreciation'[id].author_id, appreciation'[id].recipient_id}
                = {1, 2}
          /\ id \in DOMAIN appreciation =>
                appreciation'[id].recipient_id = appreciation[id].recipient_id
      ]_vars

\* A note has just been edited by its author and is still in the table.
C2_Witness ==
    /\ last.op = "edit_appreciation"
    /\ last.step = "write"
    /\ last.id \in DOMAIN appreciation
    /\ appreciation[last.id].text = "thanks"
    /\ appreciation[last.id].author_id = 2

\* C3: a request to a protected route whose session is Anonymous is
\* answered with the redirect to login and changes neither the sessions nor
\* the user, memory and appreciation tables; and a step that logs an
\* Anonymous session in is a login answered with the redirect to home,
\* whatever its ?next= parameter names.
C3_AnonymousIsSentToLogin ==
    [][ /\ (last'.op \in ProtectedRoutes /\ last'.cur = 0)
              => ( /\ last'.resp = "redirect_login"
                   /\ session' = session
                   /\ StoreUnchanged )
        /\ \A s \in Sessions :
              (CurrentUser(s) = 0 /\ session'[s] # 0)
                 => ( /\ last'.op = "login"
                      /\ last'.resp = "redirect_home" )
      ]_vars

\* An Anonymous session has just asked to delete an existing memory.
C3_Witness ==
    /\ last.op = "delete_memory"
    /\ last.cur = 0
    /\ last.resp = "redirect_login"
    /\ last.id \in DOMAIN memory
    /\ \E s \in Sessions : session[s] = 0

\* C4: a POST to /login of an Anonymous session logs the session in as u
\* exactly when the submitted username is u's and the submitted password
\* verifies against u's stored hash; otherwise the sessions are unchanged
\* and the response is the one "Invalid credentials" page, the same for an
\* unknown username and for a wrong password.
C4_LoginIffCredentials ==
    [][ (last'.op = "login" /\ last'.cur = 0 /\ last'.resp # "render_login")
        => \A s \in Sessions :
             (Serving(s) /\ CurrentUser(s) = 0) =>
               \A u \in Usernames, p \in Passwords :
                 LET match == { id \in DOMAIN user :
                                  /\ user[id].username = u
                                  /\ user[id].password_hash.of = p }
                 IN  \A n \in NextParams :
                       LoginPost(s, u, p, n) =>
                         IF match # {}
                         THEN /\ session'[s] \in match
                              /\ \A o \in Sessions \ {s} :
                                    session'[o] = session[o]
                         ELSE /\ session' = session
                              /\ last'.resp = "render_login_invalid"
      ]_vars

\* A session has just logged in.
C4_Witness ==
    /\ last.op = "login"
    /\ last.cur = 0
    /\ last.step = "write"
    /\ last.resp = "redirect_home"
    /\ \E s \in Sessions : session[s] = 2

\* C5: a step of delete_memory (delete_appreciation) whose caller is
\* logged in and whose id names no row changes nothing in the store and
\* answers with the redirect to home (to the appreciation list), which is
\* the answer of every delete that ends, a successful one included.
C5_DeleteOfMissingIdIsNoOp ==
    [][ LET e == last'
        IN  /\ (e.op = "delete_memory" /\ e.cur # 0)
               => /\ e.resp \in {"none", "redirect_home"}
                  /\ e.id \notin DOMAIN memory
                        => (StoreUnchanged /\ e.resp = "redirect_home")
            /\ (e.op = "delete_appreciation" /\ e.cur # 0)
               => /\ e.resp \in {"none", "redirect_appreciation"}
                  /\ e.id \notin DOMAIN appreciation
                        => ( /\ StoreUnchanged
                             /\ e.resp = "redirect_appreciation" )
      ]_vars

\* A memory that was created and deleted has just been deleted again.
C5_Witness ==
    /\ last.op = "delete_memory"
    /\ last.cur # 0
    /\ last.step = "check"
    /\ last.resp = "redirect_home"
    /\ last.id \notin DOMAIN memory
    /\ last.id <= memorySeq

RowHasForm(row, form) ==
    /\ row.title = form.title
    /\ row.story = form.story
    /\ row.latitude = form.latitude
    /\ row.longitude = form.longitude
    /\ row.date = form.date

\* C6 as stated: after the owner's edit without a new photo the row's
\* photo_url is what it was immediately before the UPDATE, the form's
\* fields are written and user_id is unchanged.
C6_PhotoAsBeforeTheUpdate ==
    [][ ( /\ last'.op = "edit_memory"
          /\ last'.step = "write"
          /\ ~Accepted(last'.arg) ) =>
          \A s \in Sessions :
            (pend[s].op = "edit_memory" /\ pend[s].id \in DOMAIN memory) =>
              \A form \in Forms :
                EditMemoryWrite(s, form, last'.arg) =>
                  LET id == pend[s].id
                  IN  /\ memory'[id].photo_url = memory[id].photo_url
                      /\ RowHasForm(memory'[id], form)
                      /\ memory'[id].user_id = memory[id].user_id
      ]_vars

\* C6 amended: after the owner's edit without a new photo the row's
\* photo_url is the one the request read in its ownership SELECT (the
\* row's photo_url before the UPDATE unless another request replaced the
\* photo after that SELECT), the form's fields are written and user_id is
\* unchanged.
C6_PhotoAsSelected ==
    [][ ( /\ last'.op = "edit_memory"
          /\ last'.step = "write"
          /\ ~Accepted(last'.arg) ) =>
          \A s \in Sessions :
            (pend[s].op = "edit_memory" /\ pend[s].id \in DOMAIN memory) =>
              \A form \in Forms :
                EditMemoryWrite(s, form, last'.arg) =>
                  LET id == pend[s].id
                  IN  /\ memory'[id].photo_url = pend[s].photo_url
                      /\ pend[s].photo_url = memory[id].photo_url
                            => memory'[id].photo_url = memory[id].photo_url
                      /\ RowHasForm(memory'[id], form)
                      /\ memory'[id].user_id = memory[id].user_id
                      /\ memory'[id].user_id = CurrentUser(s)
      ]_vars

\* A memory with a photo has just been edited with payload.exe attached and
\* still has its photo.
C6_Witness ==
    /\ last.op = "edit_memory"
    /\ last.step = "write"
    /\ last.arg.filename = PayloadExe
    /\ last.id \in DOMAIN memory
    /\ memory[last.id].photo_url # NULL
    /\ memory[last.id].title = "Hike"

\* The filename has an extension that is, case-insensitively, one of png,
\* jpg, jpeg, gif.
HasImageExtension(f) ==
    \E i \in 1..Len(f) :
        /\ f[i] = "."
        /\ Lower(SubSeq(f, i + 1, Len(f))) \in
              { <<"p", "n", "g">>, <<"j", "p", "g">>,
                <<"j", "p", "e", "g">>, <<"g", "i", "f">> }

\* C7: the POST of add_memory and the write of edit_memory add a file to
\* the upload directory, or store a new path as photo_url, only if the
\* uploaded file's name has an image extension: with any other upload (or
\* none) the upload directory is unchanged, a created row has photo_url
\* null and an edited row the photo_url the request read.  In every case
\* the response is the redirect to home and the row is created, or
\* updated if it still exists, with the form's fields.
C7_OnlyImagesAreStored ==
    [][ (last'.op \in {"add_memory", "edit_memory"} /\ last'.step = "write")
        => LET file  == last'.arg
               id    == last'.id
               image == file.present /\ HasImageExtension(file.filename)
           IN  \A s \in Sessions, form \in Forms :
                 /\ (Serving(s) /\ AddMemoryPost(s, form, file)) =>
                      /\ id \notin DOMAIN memory
                      /\ id \in DOMAIN memory'
                      /\ RowHasForm(memory'[id], form)
                      /\ last'.resp = "redirect_home"
                      /\ ~image => ( /\ uploads' = uploads
                                     /\ memory'[id].photo_url = NULL )
                 /\ (pend[s].op = "edit_memory"
                       /\ EditMemoryWrite(s, form, file)) =>
                      /\ last'.resp = "redirect_home"
                      /\ id \in DOMAIN memory =>
                            /\ id \in DOMAIN memory'
                            /\ RowHasForm(memory'[id], form)
                      /\ ~image =>
                            /\ uploads' = uploads
                            /\ id \in DOMAIN memory =>
                                  memory'[id].photo_url = pend[s].photo_url
      ]_vars

\* A memory has just been created with payload.exe attached: nothing is in
\* the upload directory and the row has no photo.
C7_Witness ==
    /\ last.op = "add_memory"
    /\ last.step = "write"
    /\ last.arg.filename = PayloadExe
    /\ last.id \in DOMAIN memory
    /\ memory[last.id].photo_url = NULL
    /\ uploads = {}

\* C8: a POST to /appreciation with empty text adds no row, and after
\* every step no appreciation row has an empty text.
C8_EmptyTextIsRejected ==
    [][ /\ \A s \in Sessions :
              (Serving(s) /\ CurrentUser(s) # 0 /\ AppreciationPost(s, ""))
                 => appreciation' = appreciation
        /\ \A id \in DOMAIN appreciation' : appreciation'[id].text # ""
      ]_vars

\* C9: a step changes the user table only if it is init_db run on an empty
\* user table; that run leaves exactly the rows 1 'You' and 2 'Friend',
\* whose hashes verify the configured passwords; every other run of
\* init_db, and every request, leaves each row and its password_hash as it
\* was.
C9_SeededOnce ==
    [][ /\ (last'.op = "init_db" /\ user = Empty)
              => ( /\ DOMAIN user' = {1, 2}
                   /\ user'[1].username = "You"
                   /\ user'[2].username = "Friend"
                   /\ user'[1].password_hash.of = Environment.your
                   /\ user'[2].password_hash.of = Environment.friend )
        /\ (last'.op # "init_db" \/ user # Empty) => user' = user
      ]_vars

\* The process has just been started again on a seeded database, with
\* sessions logged in and rows stored.
C9_Witness ==
    /\ last.op = "init_db"
    /\ last.resp = "kept"
    /\ DOMAIN user = {1, 2}
    /\ memory # Empty
    /\ \E s \in Sessions : session[s] # 0

\* C10: in every step, under every interleaving of the two sessions'
\* requests: a row that stays keeps its user_id (author_id); a new row's id
\* is larger than every id used before, so no deleted id is assigned
\* again; and a row is changed or removed only by the write of an
\* edit or delete request for that id whose session user is the row's
\* owner (author).
C10_OnlyTheOwnerWrites ==
    [][ /\ \A id \in DOMAIN memory :
              IF id \in DOMAIN memory' /\ memory'[id] = memory[id]
              THEN TRUE
              ELSE /\ last'.op \in MemoryWriters
                   /\ last'.step = "write"
                   /\ last'.id = id
                   /\ last'.cur = memory[id].user_id
                   /\ id \in DOMAIN memory' =>
                         memory'[id].user_id = memory[id].user_id
        /\ \A id \in DOMAIN memory' \ DOMAIN memory :
              /\ id > memorySeq
              /\ id <= memorySeq'
              /\ \A old \in DOMAIN memory : old < id
        /\ \A id \in DOMAIN appreciation :
              IF id \in DOMAIN appreciation'
                   /\ appreciation'[id] = appreciation[id]
              THEN TRUE
              ELSE /\ last'.op \in NoteWriters
                   /\ last'.step = "write"
                   /\ last'.id = id
                   /\ last'.cur = appreciation[id].author_id
                   /\ id \in DOMAIN appreciation' =>
                         appreciation'[id].author_id
                            = appreciation[id].author_id
        /\ \A id \in DOMAIN appreciation' \ DOMAIN appreciation :
              /\ id > appreciationSeq
              /\ id <= appreciationSeq'
              /\ \A old \in DOMAIN appreciation : old < id
        /\ memorySeq' >= memorySeq
        /\ appreciationSeq' >= appreciationSeq
      ]_vars

\* A delete of memory 1 is between its SELECT and its DELETE, memory 1 has
\* been deleted by another request of its owner meanwhile, and the other
\* user has since created a memory.
C10_Witness ==
    \E s \in Sessions :
        /\ pend[s].op = "delete_memory"
        /\ pend[s].id \notin DOMAIN memory
        /\ \E id \in DOMAIN memory :
              /\ memory[id].user_id # CurrentUser(s)
              /\ id > pend[s].id

====
